---- MODULE Spec2Model ----
(***************************************************************************)
(* A model of fx-data-downloader: the tick-data ingestion pipeline of      *)
(* src/src/downloader.py (weeks_between_dates, download_and_process_gz,    *)
(* download_tick_data, downloader) over the store of src/src/database.py   *)
(* and src/src/models.py.                                                  *)
(*                                                                         *)
(* Python values are tagged records ([cls |-> ...]) so that the code's     *)
(* isinstance tests are decided by the value's class.  A date is the       *)
(* number of days since 2017-12-31 (day 1 is Monday 2018-01-01).           *)
(***************************************************************************)
EXTENDS Integers, Sequences, FiniteSets, TLC

\* ------------------------------------------------------------------------
\* Bounds of the model
\* ------------------------------------------------------------------------

\* Longest range, in days, between the dates of the pure-function runs.
MaxSpan == 31

\* Longest range, in days, of a requested download.
MaxRange == 15

\* The commits of one window that the store may refuse (0: none).
MaxFail == 2

\* Most windows of one instrument in a parallel run.
MaxPoolWindows == 2

\* Rows per batch in the runs (the code's default is 10000).
BatchSize == 2

\* ------------------------------------------------------------------------
\* Python values
\* ------------------------------------------------------------------------

None == [cls |-> "NoneType"]

date(n) == [cls |-> "date", ord |-> n]

datetime(n, t) == [cls |-> "datetime", ord |-> n, tod |-> t]

\* a - b on two values: a timedelta in days, or TypeError when an operand
\* is not a date.
DateSub(a, b) ==
    IF a.cls = "date" /\ b.cls = "date"
    THEN [ok |-> TRUE, days |-> a.ord - b.ord]
    ELSE [ok |-> FALSE, days |-> 0]

\* ------------------------------------------------------------------------
\* The proleptic Gregorian calendar of Python's datetime, from 2018 on
\* ------------------------------------------------------------------------

IsLeap(y) == (y % 4 = 0) /\ ((y % 100 # 0) \/ (y % 400 = 0))

DaysInYear(y) == IF IsLeap(y) THEN 366 ELSE 365

DaysInMonth(y, m) ==
    IF m = 2 THEN (IF IsLeap(y) THEN 29 ELSE 28)
    ELSE IF m \in {4, 6, 9, 11} THEN 30 ELSE 31

RECURSIVE DaysBeforeYear(_)
DaysBeforeYear(y) ==
    IF y <= 2018 THEN 0 ELSE DaysBeforeYear(y - 1) + DaysInYear(y - 1)

RECURSIVE DaysBeforeMonth(_, _)
DaysBeforeMonth(y, m) ==
    IF m <= 1 THEN 0 ELSE DaysBeforeMonth(y, m - 1) + DaysInMonth(y, m - 1)

\* datetime.date(y, m, d) as a day number.
ToOrdinal(y, m, d) == DaysBeforeYear(y) + DaysBeforeMonth(y, m) + d

RECURSIVE YearFrom(_, _)
YearFrom(y, n) ==
    IF n <= DaysBeforeYear(y + 1) THEN y ELSE YearFrom(y + 1, n)

YearOf(n) == YearFrom(2018, n)

RECURSIVE MonthFrom(_, _, _)
MonthFrom(y, m, n) ==
    IF n <= ToOrdinal(y, m, DaysInMonth(y, m)) THEN m ELSE MonthFrom(y, m + 1, n)

MonthOf(n) == MonthFrom(YearOf(n), 1, n)

\* date.weekday(): Monday is 0.
Weekday(n) == (n - 1) % 7

\* date.replace(day=1)
ReplaceDay1(n) == ToOrdinal(YearOf(n), MonthOf(n), 1)

\* datetime._isoweek1monday
IsoWeek1Monday(y) ==
    LET firstday == ToOrdinal(y, 1, 1)
        firstweekday == Weekday(firstday)
        week1monday == firstday - firstweekday
    IN  IF firstweekday > 3 THEN week1monday + 7 ELSE week1monday

\* date.isocalendar(): <<ISO year, ISO week>> (the weekday is dropped by
\* the caller).
IsoCalendar(n) ==
    LET y == YearOf(n)
        w == (n - IsoWeek1Monday(y)) \div 7
    IN  IF w < 0
        THEN <<y - 1, ((n - IsoWeek1Monday(y - 1)) \div 7) + 1>>
        ELSE IF w >= 52 /\ n >= IsoWeek1Monday(y + 1)
        THEN <<y + 1, 1>>
        ELSE <<y, w + 1>>

\* ------------------------------------------------------------------------
\* weeks_between_dates
\* ------------------------------------------------------------------------

\* A variant that drops the remainder's extra week.
WeeksOfDeltaFloor(delta) == delta \div 7

\* The week count of the length of the range, whatever its direction.
WeeksOfDeltaAbs(delta) ==
    LET days == IF delta < 0 THEN -delta ELSE delta
    IN  (days + 6) \div 7

\* weeks = delta // 7, plus one when delta % 7 != 0 (Python's floor
\* division and non-negative remainder).
WeeksOfDelta(delta) ==
    LET weeks == delta \div 7
    IN  IF delta % 7 # 0 THEN weeks + 1 ELSE weeks

\* The call: the week count, or TypeError when d1 - d0 is not defined.
weeks_between_dates(d0, d1) ==
    LET delta == DateSub(d1, d0)
    IN  IF delta.ok
        THEN [raised |-> "", weeks |-> WeeksOfDelta(delta.days)]
        ELSE [raised |-> "TypeError", weeks |-> 0]

\* ------------------------------------------------------------------------
\* The archive: URLs, responses, payloads
\* ------------------------------------------------------------------------

base_url == <<"https:", "", "tickdata.fxcorporate.com">>

url_suffix == <<"csv", "gz">>

\* f"{base_url}/{ticket}/{yr}/{wk}{url_suffix}", kept as its "/"-separated
\* parts; the last part is the file name as its "."-separated parts.
MakeUrl(ticket, yr, wk) == base_url \o <<ticket, yr, <<wk>> \o url_suffix>>

\* url_parts[-3], url_parts[-2], url_parts[-1].split(".")[0], joined into
\* the window label f"{ticket}-{yr}-{wk}".
UrlLabel(url_data) ==
    LET n == Len(url_data)
    IN  <<url_data[n - 2], url_data[n - 1], url_data[n][1]>>

\* A line of the decompressed file is a sequence of items: a NUL byte, a
\* timestamp text (its separator and the instant it spells), or any other
\* text.
Nul == [k |-> "nul"]

Ts(sep, n, t) == [k |-> "ts", sep |-> sep, ord |-> n, tod |-> t]

Txt(s) == [k |-> "txt", s |-> s]

\* The split of the line with its NUL bytes left in.
CsvRowKeepsNul(line) == line

\* x.replace("\0", "") followed by csv.reader's split of the line.
CsvRow(line) == SelectSeq(line, LAMBDA it : it.k # "nul")

\* The accepted formats, by the date separator each one spells.
datetime_fmts == <<"/", "-">>

\* datetime.datetime.strptime(text, fmt): the instant, or ValueError.
strptime(text, fmt) ==
    IF text.k = "ts" /\ text.sep = fmt
    THEN [ok |-> TRUE, dt |-> datetime(text.ord, text.tod)]
    ELSE [ok |-> FALSE, dt |-> None]

\* ParseDt with the first format alone.
ParseDtFirstFormat(text, k, dt) ==
    LET r == strptime(text, datetime_fmts[1])
    IN  IF r.ok THEN r.dt ELSE dt

\* for fmt in datetime_fmts: try dt = strptime(row[0], fmt) except
\* ValueError: pass.  dt keeps its earlier value (or stays unbound) when no
\* format matches.
Unbound == [cls |-> "unbound"]

RECURSIVE ParseDt(_, _, _)
ParseDt(text, k, dt) ==
    IF k > Len(datetime_fmts) THEN dt
    ELSE LET r == strptime(text, datetime_fmts[k])
         IN  ParseDt(text, k + 1, IF r.ok THEN r.dt ELSE dt)

FxTick(dt, bid, ask, ticket) ==
    [cls |-> "FxTick", ticket |-> ticket, dt |-> dt, bid |-> bid, ask |-> ask]

\* Flush without "rows = []" after the commit.
FlushKeepsRows(st, failAt) ==
    IF st.rows = <<>> THEN st
    ELSE IF Len(st.commits) + 1 = failAt
    THEN [st EXCEPT !.rows = <<>>, !.stop = "SystemExit"]
    ELSE [st EXCEPT !.store = st.store \o st.rows,
                    !.commits = Append(st.commits, st.rows)]

\* session.add_all(rows); session.commit().  Only a commit that writes
\* rows reaches the database; the failAt-th such commit of the window
\* fails (0: none does).  DB.session then rolls the batch back and raises
\* SystemExit.
Flush(st, failAt) ==
    IF st.rows = <<>> THEN st
    ELSE IF Len(st.commits) + 1 = failAt
    THEN [st EXCEPT !.rows = <<>>, !.stop = "SystemExit"]
    ELSE [st EXCEPT !.rows = <<>>,
                    !.store = st.store \o st.rows,
                    !.commits = Append(st.commits, st.rows)]

\* One pass of "for row in reader" over the line.
RowStep(st, line, ticket, batch_size, failAt) ==
    LET row == CsvRow(line)
        dt == IF row # <<>> THEN ParseDt(row[1], 1, st.dt) ELSE st.dt
        parsed ==
            IF row = <<>> THEN st
            ELSE IF dt = Unbound
            THEN [st EXCEPT !.stop = "UnboundLocalError"]
            ELSE IF Len(row) < 3
            THEN [st EXCEPT !.dt = dt]
            ELSE [st EXCEPT !.dt = dt,
                            !.rows = Append(st.rows,
                                            FxTick(dt, row[2].s, row[3].s, ticket)),
                            !.count = st.count + 1]
    IN  IF parsed.stop # "" THEN parsed
        ELSE IF parsed.count % batch_size = 0 THEN Flush(parsed, failAt)
        ELSE parsed

RECURSIVE RowLoop(_, _, _, _, _, _)
RowLoop(st, lines, k, ticket, batch_size, failAt) ==
    IF st.stop # "" \/ k > Len(lines) THEN st
    ELSE RowLoop(RowStep(st, lines[k], ticket, batch_size, failAt),
                 lines, k + 1, ticket, batch_size, failAt)

\* What a call of download_and_process_gz ends with: a returned
\* (success, label) pair, an exception that leaves the function, or
\* SystemExit; and the store it leaves.
Returned(ok, this, st) ==
    [kind |-> "return", ok |-> ok, this |-> this, exc |-> "",
     store |-> st.store, commits |-> st.commits]

Raised(exc, this, st) ==
    [kind |-> IF exc = "SystemExit" THEN "exit" ELSE "raise",
     ok |-> FALSE, this |-> this, exc |-> exc,
     store |-> st.store, commits |-> st.commits]

\* The body of a 2xx response is a gzip stream ("ok"), bytes that are no
\* gzip stream ("bad": BadGzipFile before any line), a gzip stream cut
\* short ("truncated": the lines, then EOFError), or a gzip stream whose
\* trailer does not match ("crc": the lines, then BadGzipFile).
download_and_process_gz(url_data, batch_size, response, failAt, store) ==
    LET this == UrlLabel(url_data)
        ticket == this[1]
        st0 == [rows |-> <<>>, count |-> 0, dt |-> Unbound, store |-> store,
                commits |-> <<>>, stop |-> ""]
        lines == response.lines
        st1 == RowLoop(st0, lines, 2, ticket, batch_size, failAt)
        st2 == IF st1.stop = "" /\ response.gz = "ok" THEN Flush(st1, failAt)
               ELSE st1
    IN  IF response.status # "ok" THEN Returned(FALSE, this, st0)
        ELSE IF response.gz = "bad" THEN Returned(FALSE, this, st0)
        ELSE IF lines = <<>>
        THEN IF response.gz = "crc" THEN Returned(FALSE, this, st0)
             ELSE Raised(IF response.gz = "truncated" THEN "EOFError"
                         ELSE "StopIteration", this, st0)
        ELSE IF st1.stop # "" THEN Raised(st1.stop, this, st1)
        ELSE IF response.gz = "truncated" THEN Raised("EOFError", this, st1)
        ELSE IF response.gz = "crc" THEN Returned(FALSE, this, st1)
        ELSE IF st2.stop # "" THEN Raised(st2.stop, this, st2)
        ELSE Returned(TRUE, this, st2)

\* ------------------------------------------------------------------------
\* The inputs: what the archive may answer, the catalog, the arguments
\* ------------------------------------------------------------------------

TickDay == ToOrdinal(2019, 1, 2)

Header == <<Txt("DateTime"), Txt("Bid"), Txt("Ask")>>

RowA == <<Ts("/", TickDay, 1), Txt("1.10"), Txt("1.11")>>

RowB == <<Nul, Ts("-", TickDay, 2), Nul, Txt("1.12"), Txt("1.13")>>

RowC == <<Ts("/", TickDay, 4), Txt("1.15"), Txt("1.16")>>

RowShort == <<Ts("/", TickDay, 3), Txt("1.14")>>

RowBadTs == <<Ts(".", TickDay, 5), Txt("1.17"), Txt("1.18")>>

Payload(gz, lines) == [status |-> "ok", gz |-> gz, lines |-> lines]

Failure(status) == [status |-> status, gz |-> "ok", lines |-> <<>>]

PayloadGood == Payload("ok", <<Header, RowA, RowB, <<>>, RowShort, RowC>>)

PayloadStale == Payload("ok", <<Header, RowA, RowBadTs, RowC>>)

PayloadBadFirst == Payload("ok", <<Header, RowBadTs, RowC>>)

PayloadTruncated == Payload("truncated", <<Header, RowA, RowB, RowC>>)

PayloadCorrupt == Payload("crc", <<Header, RowA, RowB, RowC>>)

\* What the archive may answer in the sequential runs.
Responses ==
    { Failure("conn_error"), Failure("http_error"),
      Payload("bad", <<>>), Payload("ok", <<>>), Payload("ok", <<Header>>),
      PayloadGood, PayloadStale, PayloadBadFirst, PayloadTruncated,
      PayloadCorrupt }

\* What the archive may answer in the parallel runs.
PoolResponses == { Failure("http_error"), PayloadGood, PayloadBadFirst }

\* The rows of the instruments table.
Catalog == <<"EURUSD", "GBPUSD">>

upper(x) == IF x = "eurusd" THEN "EURUSD"
            ELSE IF x = "gbpusd" THEN "GBPUSD" ELSE x

List(v) == [cls |-> "list", v |-> v]

FirstDay == ToOrdinal(2018, 12, 26)

\* num_processes: int = 4
num_processes == 4

Workers == 1 .. num_processes

\* ------------------------------------------------------------------------
\* State
\* ------------------------------------------------------------------------

VARIABLES
    today,        \* datetime.date.today()
    randint,      \* the values random.randint(1, 3) may give in this run
    archive,      \* the responses the archive may give to a fetch
    argv,         \* the arguments of downloader
    store0,       \* the rows of table fx_tick when downloader is called
    db,           \* the database file: its tables, the rows of version and instruments
    process,      \* the process of run.py: ended or not, exit status, messages
    fx_tick,      \* the rows of table fx_tick, in insertion order
    pc,           \* where the main process is
    instruments,  \* downloader: the instruments selected
    idx,          \* downloader: the instrument the loop is at
    start_date,   \* downloader: local start_date
    date_to,      \* downloader: local date_to
    frame,        \* the running call of download_tick_data
    queue,        \* the pool's task queue: indices into frame.results
    worker,       \* the pool's workers: the task each runs (0: idle)
    returns,      \* what each call of download_tick_data returned
    fetched       \* the window labels fetched, in order

vars == <<today, randint, archive, argv, store0, db, process, fx_tick, pc, instruments,
          idx, start_date, date_to, frame, queue, worker, returns, fetched>>

\* What no step of a download changes.
inputs == <<today, randint, archive, argv, store0, db, process>>

\* The process while the script runs.
Running == [ended |-> FALSE, status |-> 0, critical |-> <<>>]

\* Base.metadata.tables
Tables == {"version", "instruments", "fx_tick"}

\* No file at db_filepath.
NoFile == [file |-> FALSE, tables |-> {}, version |-> <<>>, instruments |-> <<>>]

\* A file that holds no table (what SQLite makes when it opens a path
\* that has no file).
EmptyFile == [NoFile EXCEPT !.file = TRUE]

\* A file with every table, all empty.
FreshDb == [EmptyFile EXCEPT !.tables = Tables]

NoFrame == [ticket |-> "", d0 |-> None, d1 |-> None, multiprocess |-> FALSE,
            weeks |-> 0, i |-> 0, results |-> Unbound, ran |-> <<>>,
            slept |-> <<>>]

\* The record of one call of download_and_process_gz: what the archive
\* answered, the commit that was refused (0: none), and how the call ended.
Ran(response, failAt, result) ==
    [this |-> result.this, response |-> response,
     failAt |-> IF result.exc = "SystemExit" THEN failAt ELSE 0,
     kind |-> result.kind, ok |-> result.ok, exc |-> result.exc,
     commits |-> result.commits]

isinstance_date(x) == x.cls \in {"date", "datetime"}

isinstance_datetime(x) == x.cls = "datetime"

\* Instrument().get(tickets)
InstrumentGet(tickets) ==
    IF tickets = None THEN Catalog
    ELSE LET wanted == {upper(tickets.v[k]) : k \in 1 .. Len(tickets.v)}
         IN  SelectSeq(Catalog, LAMBDA t : t \in wanted)

\* FxTick().get_latest(ticket): the rows ORDER BY dt DESC LIMIT 1 may
\* give, or None.
DtKey(dt) == dt.ord * 100000 + dt.tod

GetLatest(store, ticket) ==
    LET mine == {k \in 1 .. Len(store) : store[k].ticket = ticket}
    IN  IF mine = {} THEN {None}
        ELSE {store[k] : k \in {j \in mine :
                  \A h \in mine : DtKey(store[h].dt) <= DtKey(store[j].dt)}}

InitStores ==
    { <<>>,
      <<FxTick(datetime(FirstDay + 8, 7), "1.00", "1.01", "EURUSD")>> }

EndDates ==
    {None} \cup {date(FirstDay + n) : n \in {-8, 0, 6, MaxRange}}
           \cup {date(ToOrdinal(2019, 1, 1) + n) : n \in {-1, 7}}

Requests ==
    [tickets : {None, List(<<"eurusd">>)},
     start_date : {None, date(FirstDay)},
     end_date : EndDates,
     multiprocess : BOOLEAN]

DefaultStart == date(ToOrdinal(2019, 1, 1))

\* The windows a request asks for, when both of its dates are known.
RequestWeeks(r) ==
    weeks_between_dates(IF r.start_date = None THEN DefaultStart
                        ELSE r.start_date, r.end_date).weeks

Init ==
    /\ today = ToOrdinal(2019, 2, 10)
    /\ argv \in {r \in Requests :
                    r.multiprocess => RequestWeeks(r) <= MaxPoolWindows}
    /\ archive = IF argv.multiprocess THEN PoolResponses ELSE Responses
    /\ store0 \in InitStores
    /\ db = [FreshDb EXCEPT !.instruments = Catalog]
    /\ fx_tick = store0
    /\ pc = "main"
    /\ instruments = <<>>
    /\ idx = 0
    /\ start_date = Unbound
    /\ date_to = Unbound
    /\ frame = NoFrame
    /\ queue = <<>>
    /\ worker = [w \in Workers |-> 0]
    /\ returns = <<>>
    /\ fetched = <<>>
    /\ process = Running
    /\ randint = {1}

\* ------------------------------------------------------------------------
\* downloader
\* ------------------------------------------------------------------------

\* The call of downloader up to its loop: the arguments are validated or
\* defaulted and the instruments are read.
downloader ==
    /\ pc = "main"
    /\ IF (argv.start_date # None /\ ~isinstance_date(argv.start_date))
          \/ (argv.end_date # None /\ ~isinstance_date(argv.end_date))
       THEN /\ pc' = "raised"
            /\ UNCHANGED <<start_date, date_to, instruments, idx>>
       ELSE /\ start_date' = IF argv.start_date = None
                             THEN date(ToOrdinal(2019, 1, 1))
                             ELSE argv.start_date
            /\ date_to' = IF argv.end_date = None
                          THEN date(ReplaceDay1(today) - 1)
                          ELSE Unbound
            /\ instruments' = InstrumentGet(argv.tickets)
            /\ idx' = 1
            /\ pc' = "loop"
    /\ UNCHANGED <<inputs, fx_tick, frame, queue, worker,
                   returns, fetched>>

\* download_tick_data returns: downloader drops the value and goes on to
\* the next instrument.
Return(ok, label) ==
    /\ returns' = Append(returns, [ticket |-> frame'.ticket, ok |-> ok,
                                   label |-> label])
    /\ idx' = idx + 1
    /\ pc' = "loop"

\* One pass of the loop of downloader, up to the loop of
\* download_tick_data: the latest tick is read, then download_tick_data is
\* called with start_date and the end_date argument and computes the weeks.
instrument_next ==
    /\ pc = "loop"
    /\ idx <= Len(instruments)
    /\ \E latest_tick \in GetLatest(fx_tick, instruments[idx]) :
         IF isinstance_datetime(latest_tick)
         THEN \* latest_tick.dt: a datetime has no attribute dt
              /\ pc' = "raised"
              /\ UNCHANGED <<date_to, frame, returns, idx>>
         ELSE LET ticket == instruments[idx]
                  w == weeks_between_dates(start_date, argv.end_date)
              IN  /\ date_to' = date_to
                  /\ frame' = [ticket |-> ticket, d0 |-> start_date,
                               d1 |-> argv.end_date,
                               multiprocess |-> argv.multiprocess,
                               weeks |-> w.weeks, i |-> 0,
                               results |-> IF argv.multiprocess /\ w.raised = ""
                                           THEN <<>> ELSE Unbound,
                               ran |-> <<>>, slept |-> <<>>]
                  /\ IF w.raised # ""
                     THEN Return(FALSE, <<ticket>>)
                     ELSE /\ pc' = "dtd"
                          /\ UNCHANGED <<returns, idx>>
    /\ UNCHANGED <<inputs, fx_tick, instruments, start_date,
                   queue, worker, fetched>>

\* The loop of downloader is over.
downloader_end ==
    /\ pc = "loop"
    /\ idx > Len(instruments)
    /\ pc' = "done"
    /\ UNCHANGED <<inputs, fx_tick, instruments, idx, start_date,
                   date_to, frame, queue, worker, returns, fetched>>

\* ------------------------------------------------------------------------
\* download_tick_data
\* ------------------------------------------------------------------------

\* A URL for the day i days after d0.
WindowUrlDaily(ticket, d0, i) ==
    LET cal == IsoCalendar(d0.ord + i)
    IN  MakeUrl(ticket, cal[1], cal[2])

\* The URL of pass i of "for i in range(weeks)".
WindowUrl(ticket, d0, i) ==
    LET cal == IsoCalendar(d0.ord + 7 * i)
    IN  MakeUrl(ticket, cal[1], cal[2])

\* Sequential mode, one pass of the loop: the window is fetched and
\* processed; a failed result returns (False, label), an exception returns
\* (False, ticket), SystemExit ends the process.  A pass that did not
\* return ends with sleep(random.randint(1, 3)).
seq_window ==
    /\ pc = "dtd"
    /\ ~frame.multiprocess
    /\ frame.i < frame.weeks
    /\ \E response \in archive, failAt \in 0 .. MaxFail, delay \in randint :
         LET url_data == WindowUrl(frame.ticket, frame.d0, frame.i)
             result == download_and_process_gz(url_data, BatchSize, response,
                                               failAt, fx_tick)
             done == result.kind = "return" /\ result.ok
         IN  /\ fx_tick' = result.store
             /\ fetched' = Append(fetched, result.this)
             /\ frame' = [frame EXCEPT
                            !.ran = Append(frame.ran, Ran(response, failAt, result)),
                            !.i = IF done THEN frame.i + 1 ELSE frame.i,
                            !.slept = IF done THEN Append(frame.slept, delay)
                                      ELSE frame.slept]
             /\ CASE result.kind = "exit" ->
                       /\ pc' = "exited"
                       /\ UNCHANGED <<returns, idx>>
                  [] result.kind = "raise" -> Return(FALSE, <<frame.ticket>>)
                  [] result.kind = "return" /\ ~result.ok ->
                       Return(FALSE, result.this)
                  [] OTHER -> UNCHANGED <<pc, returns, idx>>
    /\ UNCHANGED <<inputs, instruments, start_date, date_to,
                   queue, worker>>

\* Sequential mode, after the loop: len(results) names a variable that was
\* never bound; the NameError is caught and (False, ticket) returned.
seq_finish ==
    /\ pc = "dtd"
    /\ ~frame.multiprocess
    /\ frame.i >= frame.weeks
    /\ frame' = frame
    /\ IF frame.results = Unbound
       THEN Return(FALSE, <<frame.ticket>>)
       ELSE Return(TRUE, <<frame.ticket>>)
    /\ UNCHANGED <<inputs, fx_tick, instruments, start_date,
                   date_to, queue, worker, fetched>>

\* Parallel mode, one pass of the loop: pool.apply_async queues the window,
\* and the pass ends with sleep(random.randint(1, 3)), which stands after
\* the if/else of the two modes.
mp_submit ==
    /\ pc = "dtd"
    /\ frame.multiprocess
    /\ frame.i < frame.weeks
    /\ \E delay \in randint :
       LET url_data == WindowUrl(frame.ticket, frame.d0, frame.i)
       IN  /\ frame' = [frame EXCEPT
                          !.i = frame.i + 1,
                          !.slept = Append(frame.slept, delay),
                          !.results = Append(frame.results,
                                             [url |-> url_data, state |-> "queued",
                                              kind |-> "", ok |-> FALSE])]
           /\ queue' = Append(queue, Len(frame.results) + 1)
    /\ UNCHANGED <<inputs, fx_tick, pc, instruments, idx,
                   start_date, date_to, worker, returns, fetched>>

\* An idle worker takes the oldest queued window and leaves it queued.
worker_take_again(w) ==
    /\ worker[w] = 0
    /\ queue # <<>>
    /\ worker' = [worker EXCEPT ![w] = Head(queue)]
    /\ frame' = [frame EXCEPT !.results[Head(queue)].state = "running"]
    /\ UNCHANGED <<inputs, fx_tick, pc, instruments, idx, queue,
                   start_date, date_to, returns, fetched>>

\* An idle worker takes the oldest queued window.
worker_take(w) ==
    /\ worker[w] = 0
    /\ queue # <<>>
    /\ worker' = [worker EXCEPT ![w] = Head(queue)]
    /\ queue' = Tail(queue)
    /\ frame' = [frame EXCEPT !.results[Head(queue)].state = "running"]
    /\ UNCHANGED <<inputs, fx_tick, pc, instruments, idx,
                   start_date, date_to, returns, fetched>>

\* A worker runs its window to the end.  A returned value or an exception
\* completes the task; SystemExit ends the worker process, the task is never
\* completed, and the pool starts a new worker in its place.
worker_run(w) ==
    /\ worker[w] # 0
    /\ \E response \in archive, failAt \in 0 .. MaxFail :
         LET k == worker[w]
             result == download_and_process_gz(frame.results[k].url, BatchSize,
                                               response, failAt, fx_tick)
         IN  /\ fx_tick' = result.store
             /\ fetched' = Append(fetched, result.this)
             /\ frame' = [frame EXCEPT
                            !.ran = Append(frame.ran, Ran(response, failAt, result)),
                            !.results[k].state =
                                IF result.kind = "exit" THEN "lost" ELSE "ready",
                            !.results[k].kind = result.kind,
                            !.results[k].ok = result.ok]
    /\ worker' = [worker EXCEPT ![w] = 0]
    /\ UNCHANGED <<inputs, pc, instruments, idx, start_date,
                   date_to, queue, returns>>

\* Parallel mode, after the loop: pool.close(); pool.join() returns once
\* every submitted task is completed (never, when a task was lost), and
\* (True, ticket) is returned.
mp_join ==
    /\ pc = "dtd"
    /\ frame.multiprocess
    /\ frame.i >= frame.weeks
    /\ \A k \in 1 .. Len(frame.results) : frame.results[k].state = "ready"
    /\ frame' = frame
    /\ Return(TRUE, <<frame.ticket>>)
    /\ UNCHANGED <<inputs, fx_tick, instruments, start_date,
                   date_to, queue, worker, fetched>>

Next ==
    \/ downloader
    \/ instrument_next
    \/ downloader_end
    \/ seq_window
    \/ seq_finish
    \/ mp_submit
    \/ \E w \in Workers : worker_take(w)
    \/ \E w \in Workers : worker_run(w)
    \/ mp_join

Spec == Init /\ [][Next]_vars

\* ------------------------------------------------------------------------
\* weeks_between_dates on its own: every pair of dates of a range of days
\* ------------------------------------------------------------------------

SpanDay == ToOrdinal(2023, 5, 1)

SpanDates == {date(SpanDay + n) : n \in 0 .. MaxSpan}

InitWeeks ==
    /\ today = ToOrdinal(2019, 2, 10)
    /\ archive = {}
    /\ argv = [tickets |-> None, start_date |-> None, end_date |-> None,
               multiprocess |-> FALSE]
    /\ store0 = <<>>
    /\ db = [FreshDb EXCEPT !.instruments = Catalog]
    /\ fx_tick = store0
    /\ pc = "weeks"
    /\ instruments = <<>>
    /\ idx = 0
    /\ start_date = Unbound
    /\ date_to = Unbound
    /\ \E d0 \in SpanDates, d1 \in SpanDates :
         frame = [NoFrame EXCEPT !.d0 = d0, !.d1 = d1]
    /\ queue = <<>>
    /\ worker = [w \in Workers |-> 0]
    /\ returns = <<>>
    /\ fetched = <<>>
    /\ process = Running
    /\ randint = {1}

\* weeks = weeks_between_dates(d0, d1)
weeks_call ==
    /\ pc = "weeks"
    /\ frame' = [frame EXCEPT !.weeks = weeks_between_dates(frame.d0, frame.d1).weeks]
    /\ pc' = "weeks_done"
    /\ UNCHANGED <<inputs, fx_tick, instruments, idx, start_date,
                   date_to, queue, worker, returns, fetched>>

NextWeeks == weeks_call

SpecWeeks == InitWeeks /\ [][NextWeeks]_vars

\* ------------------------------------------------------------------------
\* The parallel runs on their own.  The main process and the pool's workers
\* are operating-system processes that keep running: a step that stays
\* possible is eventually taken.
\* ------------------------------------------------------------------------

InitPool == Init /\ argv.multiprocess

NextPool ==
    \/ downloader
    \/ instrument_next
    \/ downloader_end
    \/ mp_submit
    \/ \E w \in Workers : worker_take(w)
    \/ \E w \in Workers : worker_run(w)
    \/ mp_join

SpecPool == InitPool /\ [][NextPool]_vars /\ WF_vars(NextPool)

\* ------------------------------------------------------------------------
\* download_and_process_gz on its own: one call on every file of up to
\* MaxRows data rows, with every batch size up to BatchSize + 1
\* ------------------------------------------------------------------------

MaxRows == 5

\* The data row at line k of a file: well formed, well formed with NUL
\* bytes in it, blank, or with a timestamp in no accepted format.
RowKinds == {"good", "nul", "blank", "badts"}

RowOf(kind, k) ==
    CASE kind = "good" ->
           <<Ts(datetime_fmts[1 + (k % 2)], TickDay, k), Txt("1.10"), Txt("1.11")>>
      [] kind = "nul" ->
           <<Nul, Ts(datetime_fmts[1 + (k % 2)], TickDay, k), Nul, Txt("1.10"),
             Nul, Txt("1.11")>>
      [] kind = "blank" -> <<>>
      [] OTHER -> <<Ts(".", TickDay, k), Txt("1.10"), Txt("1.11")>>

\* The first line of a file: the header, or (a file that has none) a data
\* row.
FirstLines == {Header, RowOf("good", 0)}

FileOf(first, kinds) == <<first>> \o [k \in 1 .. Len(kinds) |-> RowOf(kinds[k], k)]

Files ==
    UNION {{FileOf(first, kinds) : first \in FirstLines, kinds \in [1 .. n -> RowKinds]} :
              n \in 0 .. MaxRows}

\* What the archive may answer for a file: the file, the file cut short,
\* the file with a wrong trailer, bytes that are no gzip stream, or no file.
Answers(lines) ==
    { Payload("ok", lines), Payload("truncated", lines), Payload("crc", lines),
      Payload("bad", <<>>), Failure("conn_error"), Failure("http_error") }

InitBatch ==
    /\ today = ToOrdinal(2019, 2, 10)
    /\ \E lines \in Files : archive = Answers(lines)
    /\ \E b \in 1 .. BatchSize + 1 :
         argv = [url_data |-> MakeUrl("EURUSD", 2019, 1), batch_size |-> b]
    /\ store0 = <<>>
    /\ db = [FreshDb EXCEPT !.instruments = Catalog]
    /\ fx_tick = store0
    /\ pc = "gz"
    /\ instruments = <<>>
    /\ idx = 0
    /\ start_date = Unbound
    /\ date_to = Unbound
    /\ frame = NoFrame
    /\ queue = <<>>
    /\ worker = [w \in Workers |-> 0]
    /\ returns = <<>>
    /\ fetched = <<>>
    /\ process = Running
    /\ randint = {1}

\* download_and_process_gz(url_data, batch_size)
gz_call ==
    /\ pc = "gz"
    /\ \E response \in archive, failAt \in 0 .. MaxFail :
         LET result == download_and_process_gz(argv.url_data, argv.batch_size,
                                               response, failAt, fx_tick)
         IN  /\ fx_tick' = result.store
             /\ fetched' = Append(fetched, result.this)
             /\ frame' = [frame EXCEPT
                            !.ran = Append(frame.ran, Ran(response, failAt, result))]
    /\ pc' = "gz_done"
    /\ UNCHANGED <<inputs, instruments, idx, start_date, date_to,
                   queue, worker, returns>>

NextBatch == gz_call

SpecBatch == InitBatch /\ [][NextBatch]_vars

\* ------------------------------------------------------------------------
\* The loop of download_tick_data on its own: ranges of MaxWindows weeks
\* that start in the last days of a year, in both modes, every file empty
\* ------------------------------------------------------------------------

MaxWindows == 4

\* 20 to 26 December of 2018, 2019 and 2020 (2020 has 53 ISO weeks).
WindowStarts ==
    {date(ToOrdinal(y, 12, 20) + n) : y \in {2018, 2019, 2020}, n \in 0 .. 6}

InitWindows ==
    /\ today = ToOrdinal(2019, 2, 10)
    /\ archive = {Payload("ok", <<Header>>)}
    /\ argv \in [tickets : {None}, start_date : WindowStarts, end_date : {None},
                  multiprocess : BOOLEAN]
    /\ store0 = <<>>
    /\ db = [FreshDb EXCEPT !.instruments = Catalog]
    /\ fx_tick = store0
    /\ pc = "dtd"
    /\ instruments = Catalog
    /\ idx = 1
    /\ start_date = argv.start_date
    /\ date_to = Unbound
    /\ frame = [ticket |-> Catalog[1], d0 |-> argv.start_date,
                d1 |-> date(argv.start_date.ord + 7 * MaxWindows),
                multiprocess |-> argv.multiprocess,
                weeks |-> weeks_between_dates(
                              argv.start_date,
                              date(argv.start_date.ord + 7 * MaxWindows)).weeks,
                i |-> 0,
                results |-> IF argv.multiprocess THEN <<>> ELSE Unbound,
                ran |-> <<>>, slept |-> <<>>]
    /\ queue = <<>>
    /\ worker = [w \in Workers |-> 0]
    /\ returns = <<>>
    /\ fetched = <<>>
    /\ process = Running
    /\ randint = 1 .. 3

NextWindows ==
    \/ seq_window
    \/ mp_submit

SpecWindows == InitWindows /\ [][NextWindows]_vars

\* ------------------------------------------------------------------------
\* DB: create_database, drop_tables, delete_database, populate_database
\* ------------------------------------------------------------------------

\* What a call of a method of DB ends with: a returned value or SystemExit;
\* and the database file and the rows of fx_tick it leaves.
Done(value, d, ticks) ==
    [kind |-> "return", value |-> value, db |-> d, fx_tick |-> ticks]

Exit(d, ticks) ==
    [kind |-> "exit", value |-> FALSE, db |-> d, fx_tick |-> ticks]

\* What the system may refuse in a call: nothing, the removal of the file
\* (OSError), or a statement of the database (SQLAlchemyError).
Faults == {"", "unlink", "sql"}

\* with self.session() as s: s.add_all(rows), followed or not by
\* s.commit(); session.close() drops what was not committed.
SessionAdd(d, table, rows, commit) ==
    IF commit THEN [d EXCEPT ![table] = d[table] \o rows] ELSE d

\* delete_database with the test of confirm left out.
delete_database_unconfirmed(d, ticks, confirm, fault) ==
    IF ~d.file THEN Done(TRUE, d, ticks)
    ELSE IF fault = "unlink" THEN Exit(d, ticks)
    ELSE Done(TRUE, NoFile, <<>>)

delete_database(d, ticks, confirm, fault) ==
    IF confirm
    THEN IF ~d.file THEN Done(TRUE, d, ticks)
         ELSE IF fault = "unlink" THEN Exit(d, ticks)
         ELSE Done(TRUE, NoFile, <<>>)
    ELSE Done(FALSE, d, ticks)

\* create_database with the test of overwrite left out.
create_database_always(d, ticks, overwrite, fault) ==
    LET deleted == delete_database(d, ticks, TRUE, fault)
    IN  IF deleted.kind = "exit" THEN deleted
        ELSE IF fault = "sql" THEN Exit(EmptyFile, <<>>)
        ELSE Done(TRUE, FreshDb, <<>>)

\* The Version row is added in a session that is closed without a commit.
create_database(d, ticks, overwrite, fault) ==
    IF ~overwrite /\ d.file THEN Done(FALSE, d, ticks)
    ELSE LET deleted == delete_database(d, ticks, TRUE, fault)
         IN  IF deleted.kind = "exit" THEN deleted
             ELSE IF fault = "sql" THEN Exit(EmptyFile, <<>>)
             ELSE Done(TRUE, SessionAdd(FreshDb, "version", <<1>>, FALSE), <<>>)

\* Opening the path makes the file when there is none.
drop_tables(d, ticks, confirm, fault) ==
    IF confirm
    THEN IF fault = "sql" THEN Exit([d EXCEPT !.file = TRUE], ticks)
         ELSE Done(TRUE, EmptyFile, <<>>)
    ELSE Done(FALSE, d, ticks)

\* The insert fails when the table is missing or a ticket (the primary
\* key) is already there; DB.session then raises SystemExit.
populate_database(d, ticks, data, fault) ==
    IF \/ fault = "sql"
       \/ "instruments" \notin d.tables
       \/ \E j \in 1 .. Len(data), k \in 1 .. Len(d.instruments) :
              data[j] = d.instruments[k]
    THEN Exit([d EXCEPT !.file = TRUE], ticks)
    ELSE Done(TRUE, SessionAdd(d, "instruments", data, TRUE), ticks)

\* Version.to_dict() of the row with this id (created and updated, the
\* time of the insert, are left out).
VersionDict(id) == [cls |-> "dict", keys |-> "version", id |-> id]

\* The values get_status returns without a version row.
NoDatabaseDict == [cls |-> "dict", keys |-> "status", id |-> 0]

Bool(b) == [cls |-> "bool", v |-> b]

\* get_status: without a file the dictionary of None values; with other
\* tables than the models' False; else the first row of version as a
\* dictionary.  Without a row, first() is None and None.to_dict() raises
\* AttributeError; an exception that leaves the try block meets
\* "except SQLAlchemyError() as e", whose expression is an instance and not
\* a class, so that TypeError is raised in its place.
get_status(d, ticks, fault) ==
    IF ~d.file THEN Done(NoDatabaseDict, d, ticks)
    ELSE IF fault = "sql"
    THEN [kind |-> "raise", value |-> [cls |-> "TypeError"], db |-> d,
          fx_tick |-> ticks]
    ELSE IF d.tables # Tables THEN Done(Bool(FALSE), d, ticks)
    ELSE IF d.version = <<>>
    THEN [kind |-> "raise", value |-> [cls |-> "TypeError"], db |-> d,
          fx_tick |-> ticks]
    ELSE Done(VersionDict(Head(d.version)), d, ticks)

\* The lists of instruments a caller populates the database with.
Datas == {<<"AAASSS">>, Catalog}

InitDB ==
    /\ today = ToOrdinal(2019, 2, 10)
    /\ archive = {}
    /\ argv = [tickets |-> None, start_date |-> None, end_date |-> None,
               multiprocess |-> FALSE]
    /\ store0 \in InitStores
    /\ \/ db = NoFile /\ fx_tick = <<>>
       \/ db = [FreshDb EXCEPT !.instruments = Catalog] /\ fx_tick = store0
    /\ pc = "db"
    /\ instruments = <<>>
    /\ idx = 0
    /\ start_date = Unbound
    /\ date_to = Unbound
    /\ frame = NoFrame
    /\ queue = <<>>
    /\ worker = [w \in Workers |-> 0]
    /\ returns = <<>>
    /\ fetched = <<>>
    /\ process = Running
    /\ randint = {1}

\* A call ends: the record of it replaces that of the call before.  The
\* record keeps whether the database is one that create_database returned
\* True for, with nothing but populate_database and get_status called
\* since.
Called(method, arg, fault, result) ==
    /\ db' = result.db
    /\ fx_tick' = result.fx_tick
    /\ returns' = <<[method |-> method, arg |-> arg, fault |-> fault,
                     kind |-> result.kind, value |-> result.value,
                     before |-> [db |-> db, fx_tick |-> fx_tick],
                     created |->
                         IF method = "create_database"
                         THEN result.kind = "return" /\ result.value
                         ELSE /\ method \in {"populate_database", "get_status"}
                              /\ returns # <<>>
                              /\ returns[1].created]>>
    /\ pc' = CASE result.kind = "exit" -> "exited"
               [] result.kind = "raise" -> "raised"
               [] OTHER -> "db"
    /\ UNCHANGED <<today, randint, archive, argv, store0, process, instruments, idx,
                   start_date, date_to, frame, queue, worker, fetched>>

call_create_database ==
    /\ pc = "db"
    /\ \E overwrite \in BOOLEAN, fault \in Faults :
         Called("create_database", overwrite, fault,
                create_database(db, fx_tick, overwrite, fault))

call_drop_tables ==
    /\ pc = "db"
    /\ \E confirm \in BOOLEAN, fault \in Faults :
         Called("drop_tables", confirm, fault,
                drop_tables(db, fx_tick, confirm, fault))

call_delete_database ==
    /\ pc = "db"
    /\ \E confirm \in BOOLEAN, fault \in Faults :
         Called("delete_database", confirm, fault,
                delete_database(db, fx_tick, confirm, fault))

call_populate_database ==
    /\ pc = "db"
    /\ \E data \in Datas, fault \in Faults :
         Called("populate_database", List(data), fault,
                populate_database(db, fx_tick, data, fault))

call_get_status ==
    /\ pc = "db"
    /\ \E fault \in Faults :
         Called("get_status", None, fault, get_status(db, fx_tick, fault))

NextDB ==
    \/ call_create_database
    \/ call_drop_tables
    \/ call_delete_database
    \/ call_populate_database
    \/ call_get_status

SpecDB == InitDB /\ [][NextDB]_vars

\* ------------------------------------------------------------------------
\* run.py: the script from its arguments to the call of downloader
\* ------------------------------------------------------------------------

\* A text of the command line, as its "-"-separated parts (none: the
\* empty text; three numbers: a text of the form y-m-d).
Str(parts) == [cls |-> "str", parts |-> parts]

\* "if args.start_date:" is false for None and for the empty text.
Truthy(x) == IF x = None THEN FALSE ELSE x.parts # <<>>

\* datetime.datetime.strptime(x, "%Y-%m-%d").date(): the date, or
\* ValueError.
strptime_ymd(x) ==
    LET p == x.parts
    IN  IF /\ Len(p) = 3
           /\ p[1] \in 1 .. 9999
           /\ p[2] \in 1 .. 12
           /\ p[3] \in 1 .. DaysInMonth(p[1], p[2])
        THEN [ok |-> TRUE, date |-> date(ToOrdinal(p[1], p[2], p[3]))]
        ELSE [ok |-> FALSE, date |-> None]

\* database_init(): the database is deleted, created and populated with
\* the instruments of the CSV file.
database_init(d, ticks, fault) ==
    LET deleted == delete_database(d, ticks, TRUE, fault)
        created == create_database(deleted.db, deleted.fx_tick, TRUE, fault)
        populated == populate_database(created.db, created.fx_tick, Catalog, fault)
    IN  IF deleted.kind = "exit" THEN deleted
        ELSE IF created.kind = "exit" THEN created
        ELSE IF populated.kind = "exit" THEN populated
        ELSE Done(TRUE, populated.db, populated.fx_tick)

\* "raise SystemExit": the process ends; SystemExit carries no code, so the
\* exit status is 0.
Exited(message) ==
    [ended |-> TRUE, status |-> 0,
     critical |-> IF message = "" THEN process.critical
                  ELSE Append(process.critical, message)]

ArgDates ==
    { None, Str(<<>>), Str(<<2019, 1, 7>>), Str(<<2019, 2, 30>>),
      Str(<<"yesterday">>) }

Args ==
    [newdb : BOOLEAN, multiprocess : BOOLEAN, tickets : {None},
     start_date : ArgDates, end_date : ArgDates]

InitCli ==
    /\ today = ToOrdinal(2019, 2, 10)
    /\ archive = {}
    /\ argv \in Args
    /\ store0 = <<>>
    /\ db = [FreshDb EXCEPT !.instruments = Catalog]
    /\ fx_tick = store0
    /\ pc = "newdb"
    /\ instruments = <<>>
    /\ idx = 0
    /\ start_date = Unbound
    /\ date_to = Unbound
    /\ frame = NoFrame
    /\ queue = <<>>
    /\ worker = [w \in Workers |-> 0]
    /\ returns = <<>>
    /\ fetched = <<>>
    /\ process = Running
    /\ randint = {1}

\* if args.newdb: database_init()
run_newdb ==
    /\ pc = "newdb"
    /\ IF argv.newdb
       THEN \E fault \in Faults :
              LET result == database_init(db, fx_tick, fault)
              IN  /\ db' = result.db
                  /\ fx_tick' = result.fx_tick
                  /\ returns' = Append(returns,
                                       [method |-> "database_init",
                                        kind |-> result.kind])
                  /\ IF result.kind = "exit"
                     THEN pc' = "exited" /\ process' = Exited("")
                     ELSE pc' = "start_date" /\ process' = process
       ELSE /\ pc' = "start_date"
            /\ UNCHANGED <<db, fx_tick, returns, process>>
    /\ UNCHANGED <<today, randint, archive, argv, store0, instruments, idx, start_date,
                   date_to, frame, queue, worker, fetched>>

\* if args.start_date: start_date = strptime(...).date(), or the message
\* and SystemExit
run_start_date ==
    /\ pc = "start_date"
    /\ IF Truthy(argv.start_date)
       THEN LET parsed == strptime_ymd(argv.start_date)
            IN  IF parsed.ok
                THEN /\ start_date' = parsed.date
                     /\ pc' = "end_date"
                     /\ process' = process
                ELSE /\ process' = Exited("Invalid start date format.")
                     /\ pc' = "exited"
                     /\ start_date' = start_date
       ELSE /\ pc' = "end_date"
            /\ UNCHANGED <<start_date, process>>
    /\ UNCHANGED <<today, randint, archive, argv, store0, db, fx_tick, instruments, idx,
                   date_to, frame, queue, worker, returns, fetched>>

\* if args.end_date: start_date = strptime(...).date() (the name assigned
\* is start_date), or the message and SystemExit
run_end_date ==
    /\ pc = "end_date"
    /\ IF Truthy(argv.end_date)
       THEN LET parsed == strptime_ymd(argv.end_date)
            IN  IF parsed.ok
                THEN /\ start_date' = parsed.date
                     /\ pc' = "main"
                     /\ process' = process
                ELSE /\ process' = Exited("Invalid end date format.")
                     /\ pc' = "exited"
                     /\ start_date' = start_date
       ELSE /\ pc' = "main"
            /\ UNCHANGED <<start_date, process>>
    /\ UNCHANGED <<today, randint, archive, argv, store0, db, fx_tick, instruments, idx,
                   date_to, frame, queue, worker, returns, fetched>>

\* The script, and downloader up to its loop.
NextCli ==
    \/ run_newdb
    \/ run_start_date
    \/ run_end_date
    \/ downloader

SpecCli == InitCli /\ [][NextCli]_vars

\* ------------------------------------------------------------------------
\* The pool on its own: one parallel call for a range of one window more
\* than there are workers, every file empty
\* ------------------------------------------------------------------------

InitWorkers ==
    /\ today = ToOrdinal(2019, 2, 10)
    /\ archive = {Payload("ok", <<Header>>)}
    /\ argv \in [tickets : {List(<<"eurusd">>)},
                  start_date : {date(FirstDay), DefaultStart},
                  end_date : {None}, multiprocess : {TRUE}]
    /\ store0 = <<>>
    /\ db = [FreshDb EXCEPT !.instruments = Catalog]
    /\ fx_tick = store0
    /\ pc = "dtd"
    /\ instruments = <<"EURUSD">>
    /\ idx = 1
    /\ start_date = argv.start_date
    /\ date_to = Unbound
    /\ frame = [ticket |-> "EURUSD", d0 |-> argv.start_date,
                d1 |-> date(argv.start_date.ord + 7 * (num_processes + 1)),
                multiprocess |-> TRUE,
                weeks |-> weeks_between_dates(
                              argv.start_date,
                              date(argv.start_date.ord
                                   + 7 * (num_processes + 1))).weeks,
                i |-> 0, results |-> <<>>, ran |-> <<>>,
                slept |-> <<>>]
    /\ queue = <<>>
    /\ worker = [w \in Workers |-> 0]
    /\ returns = <<>>
    /\ fetched = <<>>
    /\ process = Running
    /\ randint = {1}

NextWorkers ==
    \/ mp_submit
    \/ \E w \in Workers : worker_take(w)
    \/ \E w \in Workers : worker_run(w)
    \/ mp_join

SpecWorkers == InitWorkers /\ [][NextWorkers]_vars

\* ------------------------------------------------------------------------
\* Properties
\* ------------------------------------------------------------------------

SpanDelta == frame.d1.ord - frame.d0.ord

\* C1 as stated: weeks_between_dates(d0, d1) is ceil((d1 - d0).days / 7),
\* 0 for equal dates, 1 for 5 days, 2 for 13 or 14 days, 5 for 30 days, -4
\* for -31 days, and negative whenever d0 is later than d1.
C1_AsStated ==
    pc = "weeks_done" =>
        /\ 7 * frame.weeks >= SpanDelta
        /\ 7 * (frame.weeks - 1) < SpanDelta
        /\ (SpanDelta < 0 => frame.weeks < 0)

\* C1, amended: weeks_between_dates(d0, d1) is ceil((d1 - d0).days / 7): 0
\* for equal dates, 1 for 5 days, 2 for 13 or 14 days, 5 for 30 days, -4 for
\* -31 days; it is negative when d0 is at least 7 days later than d1 and 0
\* when d0 is 1 to 6 days later than d1.
C1_WeeksIsCeiling ==
    pc = "weeks_done" =>
        /\ 7 * frame.weeks >= SpanDelta
        /\ 7 * (frame.weeks - 1) < SpanDelta
        /\ (SpanDelta = 0 => frame.weeks = 0)
        /\ (SpanDelta = 5 => frame.weeks = 1)
        /\ (SpanDelta \in {13, 14} => frame.weeks = 2)
        /\ (SpanDelta = 30 => frame.weeks = 5)
        /\ (SpanDelta = -31 => frame.weeks = -4)
        /\ (SpanDelta <= -7 => frame.weeks < 0)
        /\ (SpanDelta \in -6 .. -1 => frame.weeks = 0)

\* A pair of dates with d0 three days later than d1 has been counted.
C1_Witness ==
    /\ pc = "weeks_done"
    /\ SpanDelta = -3
    /\ frame.weeks = 0

\* The window labels download_tick_data has generated in the running call.
Generated ==
    IF frame.multiprocess
    THEN {UrlLabel(frame.results[k].url) : k \in 1 .. Len(frame.results)}
    ELSE {frame.ran[k].this : k \in 1 .. Len(frame.ran)}

\* The loop of the running call is over and every window of it succeeded
\* or was submitted.
LoopOver == pc = "dtd" /\ frame.i >= frame.weeks

Succeeded(r) == r.kind = "return" /\ r.ok

\* The last call of download_tick_data has returned, and frame is its frame.
Returned1 == pc \in {"loop", "done"} /\ returns # <<>>

LastReturn == returns[Len(returns)]

RECURSIVE Flatten(_)
Flatten(batches) ==
    IF batches = <<>> THEN <<>> ELSE Head(batches) \o Flatten(Tail(batches))

RECURSIVE CommittedBy(_)
CommittedBy(ran) ==
    IF ran = <<>> THEN 0
    ELSE Len(Flatten(Head(ran).commits)) + CommittedBy(Tail(ran))

TicksOf(store, ticket) == SelectSeq(store, LAMBDA t : t.ticket = ticket)

\* The store holds, for the instrument of the running call, what it held
\* at the start and the batches the call's windows committed, nothing else.
StoreAccounted ==
    Len(TicksOf(fx_tick, frame.ticket)) =
        Len(TicksOf(store0, frame.ticket)) + CommittedBy(frame.ran)

\* C2: once the loop of download_tick_data is over for a range with
\* end > start, every ISO week that holds a day of [start, end) has a
\* generated window.
C2_EveryTouchedWeekHasWindow ==
    (LoopOver /\ frame.d1.ord > frame.d0.ord) =>
        \A day \in frame.d0.ord .. frame.d1.ord - 1 :
            <<frame.ticket>> \o IsoCalendar(day) \in Generated

\* C3: when download_tick_data generates windows for an instrument that
\* had a stored latest tick when the run began, its start date is the day
\* after that tick's date; with no stored tick it is the requested or
\* default start date.
C3_ResumesAfterLatestTick ==
    (pc = "dtd" /\ frame.weeks > 0) =>
        \A t \in GetLatest(store0, frame.ticket) :
            IF t.cls = "FxTick"
            THEN frame.d0 = date(t.dt.ord + 1)
            ELSE frame.d0 = (IF argv.start_date = None THEN DefaultStart
                             ELSE argv.start_date)

\* C4: a call of downloader without an end date runs download_tick_data
\* with the last day of the month before today as its end date, and the
\* windows of that range are dispatched.
C4_DefaultEndIsLastDayOfPreviousMonth ==
    (argv.end_date = None /\ returns # <<>>) =>
        LET end == ReplaceDay1(today) - 1
        IN  /\ frame.d1 = date(end)
            /\ WeeksOfDelta(end - frame.d0.ord) > 0 =>
                   \E k \in 1 .. Len(fetched) : fetched[k][1] = frame.ticket

\* C5: a call of download_tick_data for a range of one window or more
\* returns True exactly when every window of the range was processed
\* successfully (sequential or parallel mode).
C5_ReturnsTrueIffAllWindowsSucceeded ==
    (Returned1 /\ argv.end_date # None /\ frame.weeks > 0) =>
        (LastReturn.ok <=>
            /\ Len(frame.ran) = frame.weeks
            /\ \A k \in 1 .. Len(frame.ran) : Succeeded(frame.ran[k]))

\* The records the claim C6 expects of a file: one per row that has three
\* fields and a timestamp in an accepted format, with the row's own values.
RECURSIVE WellFormedTicks(_, _, _)
WellFormedTicks(lines, k, ticket) ==
    IF k > Len(lines) THEN <<>>
    ELSE LET row == CsvRow(lines[k])
             good == /\ Len(row) >= 3
                     /\ row[1].k = "ts"
                     /\ \E f \in 1 .. Len(datetime_fmts) : row[1].sep = datetime_fmts[f]
         IN  (IF good
              THEN <<FxTick(datetime(row[1].ord, row[1].tod), row[2].s, row[3].s,
                            ticket)>>
              ELSE <<>>) \o WellFormedTicks(lines, k + 1, ticket)

\* C6: a row whose timestamp matches no accepted format is skipped: the
\* records stored for a file that decompresses and whose commits succeed are
\* exactly those of its well-formed rows.
C6_BadTimestampRowSkipped ==
    \A k \in 1 .. Len(frame.ran) :
        LET r == frame.ran[k]
        IN  (/\ r.response.status = "ok"
             /\ r.response.gz = "ok"
             /\ r.response.lines # <<>>
             /\ r.exc # "SystemExit") =>
                Flatten(r.commits) = WellFormedTicks(r.response.lines, 2, r.this[1])

\* C7: every call of download_and_process_gz ends by returning a
\* (success, label) pair.
C7_ExecutorAlwaysReturns ==
    \A k \in 1 .. Len(frame.ran) : frame.ran[k].kind = "return"

\* C8: a window whose batch commit fails is reported as failed, keeps its
\* earlier batches in the store and stores nothing of the failing batch.
C8_CommitFailureReportedAsFailed ==
    \A k \in 1 .. Len(frame.ran) :
        frame.ran[k].exc = "SystemExit" =>
            /\ frame.ran[k].kind = "return"
            /\ ~frame.ran[k].ok
            /\ StoreAccounted

\* C9: when downloader has ended, download_tick_data has run and returned
\* for every selected instrument.
C9_EveryInstrumentProcessed ==
    pc \in {"done", "exited"} => Len(returns) = Len(instruments)

\* C10: in sequential mode a failed window is the last one the call runs,
\* the call returns (False, label of that window), and the store keeps what
\* the earlier windows committed.
C10_SequentialFailFast ==
    ~frame.multiprocess =>
        \A k \in 1 .. Len(frame.ran) :
            ~Succeeded(frame.ran[k]) =>
                /\ k = Len(frame.ran)
                /\ StoreAccounted
                /\ Returned1
                /\ ~LastReturn.ok
                /\ LastReturn.label = frame.ran[k].this

\* A parallel call is running, every window of its range is submitted and
\* every one of them is completed.
AllReady ==
    /\ pc = "dtd"
    /\ frame.multiprocess
    /\ frame.i >= frame.weeks
    /\ Len(frame.results) = frame.i
    /\ \A k \in 1 .. Len(frame.results) : frame.results[k].state = "ready"

\* C11: in parallel mode every window of the range is submitted and reaches
\* a terminal state whatever the other windows do, and download_tick_data
\* returns only after that: a running parallel call leads to a state where
\* all windows of the range are submitted and completed, and the call
\* returns from such a state only.
C11_EveryWindowTerminal ==
    /\ (pc = "dtd" /\ frame.multiprocess)
           ~> AllReady
    /\ [][(pc = "dtd" /\ frame.multiprocess /\ pc' # "dtd")
             => AllReady]_vars

\* The call of download_and_process_gz that SpecBatch has made.
Call == frame.ran[1]

\* The records the call parsed, in order: what its loop appends to rows when
\* no flush happens in between.
ParsedBy(r) ==
    RowLoop([rows |-> <<>>, count |-> 0, dt |-> Unbound, store |-> <<>>,
             commits |-> <<>>, stop |-> ""],
            r.response.lines, 2, r.this[1], Len(r.response.lines) + 1, 0).rows

\* C12: a call that reaches the end of its stream with n parsed records
\* and batch size b has made floor(n/b) non-empty commits of b records
\* followed, when n mod b > 0, by one of n mod b records (2, 2 and 1 for
\* n = 5 and b = 2), and the commits hold every parsed record exactly once,
\* in order.
C12_BatchesOfBatchSizeThenRemainder ==
    (pc = "gz_done" /\ Succeeded(Call)) =>
        LET n == Len(ParsedBy(Call))
            b == argv.batch_size
            full == n \div b
        IN  /\ Len(Call.commits) = full + (IF n % b > 0 THEN 1 ELSE 0)
            /\ \A j \in 1 .. full : Len(Call.commits[j]) = b
            /\ n % b > 0 => Len(Call.commits[full + 1]) = n % b
            /\ Flatten(Call.commits) = ParsedBy(Call)
            /\ fx_tick = store0 \o ParsedBy(Call)
            /\ (n = 5 /\ b = 2) =>
                   /\ Len(Call.commits) = 3
                   /\ Len(Call.commits[1]) = 2
                   /\ Len(Call.commits[2]) = 2
                   /\ Len(Call.commits[3]) = 1

\* A call with batch size 2 on a file of 5 parseable rows has ended with
\* three commits.
C12_Witness ==
    /\ pc = "gz_done"
    /\ Succeeded(Call)
    /\ argv.batch_size = 2
    /\ Len(ParsedBy(Call)) = 5
    /\ Len(Call.commits) = 3

\* C13: a call of download_tick_data whose start date is later than or
\* equal to its end date dispatches no window, in either mode: no URL is
\* built, nothing is submitted or fetched, and the store is left as it was.
C13_NoWindowWhenStartNotBeforeEnd ==
    (pc \in {"dtd", "loop", "done"} /\ frame # NoFrame /\ frame.d1 # None
        /\ frame.d0.ord >= frame.d1.ord) =>
        /\ frame.weeks <= 0
        /\ frame.i = 0
        /\ frame.ran = <<>>
        /\ frame.multiprocess => frame.results = <<>>
        /\ queue = <<>>
        /\ fetched = <<>>
        /\ fx_tick = store0

\* A call with a start date more than a week after its end date has
\* returned.
C13_Witness ==
    /\ Returned1
    /\ frame.d1 # None
    /\ frame.d0.ord > frame.d1.ord + 7
    /\ frame.weeks < 0

\* The windows the running call has dispatched so far, in order: fetched
\* (sequential mode) or submitted to the pool (parallel mode).
Dispatched ==
    IF frame.multiprocess
    THEN [k \in 1 .. Len(frame.results) |-> UrlLabel(frame.results[k].url)]
    ELSE [k \in 1 .. Len(frame.ran) |-> frame.ran[k].this]

\* The first day (a Monday) of the ISO week a window label names.
WeekStart(label) == IsoWeek1Monday(label[2]) + 7 * (label[3] - 1)

\* C14: the windows of a call are dispatched in increasing chronological
\* order and do not overlap: window i (from 0) carries the ISO (year, week)
\* of start + 7*i days, each window's week starts seven days or more after
\* the one before, and no two windows carry the same label, across a year
\* boundary too.
C14_WindowsInOrderAndDistinct ==
    \A k \in 1 .. Len(Dispatched) :
        LET day == frame.d0.ord + 7 * (k - 1)
            label == Dispatched[k]
        IN  /\ label = <<frame.ticket>> \o IsoCalendar(day)
            /\ day \in WeekStart(label) .. WeekStart(label) + 6
            /\ \A j \in 1 .. k - 1 :
                  /\ Dispatched[j] # label
                  /\ WeekStart(Dispatched[j]) + 7 <= WeekStart(label)
                  /\ \/ Dispatched[j][2] < label[2]
                     \/ Dispatched[j][2] = label[2] /\ Dispatched[j][3] < label[3]

\* A call has dispatched the windows of a range that begins in week 52 of
\* 2020 and goes through week 53 into 2021.
C14_Witness ==
    /\ Len(Dispatched) = MaxWindows
    /\ Dispatched[1][2] = 2020
    /\ \E k \in 1 .. Len(Dispatched) : Dispatched[k][3] = 53
    /\ Dispatched[Len(Dispatched)][2] = 2021

\* C15: a call whose fetch fails (connection error or non-2xx status) or
\* whose payload is found not to be valid gzip data (BadGzipFile), and
\* that no exception leaves, returns (False, label of the window), and no
\* tick of the window is committed.
C15_FailedFetchOrBadGzipCommitsNothing ==
    (pc = "gz_done" /\ Call.kind = "return"
        /\ (Call.response.status # "ok" \/ Call.response.gz \in {"bad", "crc"})) =>
        /\ ~Call.ok
        /\ Call.this = UrlLabel(argv.url_data)
        /\ Call.commits = <<>>
        /\ fx_tick = store0

\* Every line after the first has, once its NUL bytes are dropped, three
\* fields, the first a timestamp in an accepted format.
AllRowsWellFormed(lines) ==
    \A k \in 2 .. Len(lines) :
        LET row == CsvRow(lines[k])
        IN  /\ Len(row) = 3
            /\ row[1].k = "ts"
            /\ \E f \in 1 .. Len(datetime_fmts) : row[1].sep = datetime_fmts[f]
            /\ row[2].k = "txt"
            /\ row[3].k = "txt"

\* One record per line after the first, with the line's own values.
RecordsOfRows(lines, ticket) ==
    [k \in 1 .. Len(lines) - 1 |->
        LET row == CsvRow(lines[k + 1])
        IN  FxTick(datetime(row[1].ord, row[1].tod), row[2].s, row[3].s, ticket)]

\* C16: a call on a payload that decompresses and whose lines after the
\* first are all well formed, with no commit refused, returns True and has
\* committed exactly one record per line after the first, in order, each
\* with the line's own timestamp, bid and ask and the ticket of the
\* window; the first line yields no record, whatever it holds.
C16_OneRecordPerRowAfterHeader ==
    (/\ pc = "gz_done"
     /\ Call.response.status = "ok"
     /\ Call.response.gz = "ok"
     /\ Call.response.lines # <<>>
     /\ AllRowsWellFormed(Call.response.lines)
     /\ Call.exc # "SystemExit") =>
        LET records == RecordsOfRows(Call.response.lines, "EURUSD")
        IN  /\ Succeeded(Call)
            /\ Flatten(Call.commits) = records
            /\ fx_tick = store0 \o records
            /\ \A k \in 1 .. Len(fx_tick) :
                  DtKey(fx_tick[k].dt) # DtKey(datetime(TickDay, 0))

\* A call has stored the MaxRows records of a file whose first line is a
\* data row and whose other lines are well formed, some with NUL bytes.
C16_Witness ==
    /\ pc = "gz_done"
    /\ Succeeded(Call)
    /\ Call.response.gz = "ok"
    /\ Len(Call.response.lines) = MaxRows + 1
    /\ Call.response.lines[1] = RowOf("good", 0)
    /\ AllRowsWellFormed(Call.response.lines)
    /\ Call.response.lines[3] = RowOf("nul", 2)
    /\ Len(fx_tick) = MaxRows

\* The file with every NUL byte taken out of its lines.
WithoutNul(lines) ==
    [k \in 1 .. Len(lines) |-> SelectSeq(lines[k], LAMBDA it : it # Nul)]

HasNul(line) == \E k \in 1 .. Len(line) : line[k] = Nul

\* C17: a call on a file ends as the same call on the file without its NUL
\* bytes ends: the same return value or exception, the same commits and the
\* same store; so a line with NUL bytes stops no later row from being
\* processed.
C17_NulBytesMakeNoDifference ==
    pc = "gz_done" =>
        LET clean == [Call.response EXCEPT !.lines = WithoutNul(Call.response.lines)]
            same == download_and_process_gz(argv.url_data, argv.batch_size, clean,
                                            Call.failAt, store0)
        IN  /\ same.kind = Call.kind
            /\ same.ok = Call.ok
            /\ same.exc = Call.exc
            /\ same.this = Call.this
            /\ same.commits = Call.commits
            /\ same.store = fx_tick

\* A call on a file whose first data row has NUL bytes has stored a record
\* for that row and for each of the MaxRows - 1 rows after it.
C17_Witness ==
    /\ pc = "gz_done"
    /\ Succeeded(Call)
    /\ Len(Call.response.lines) = MaxRows + 1
    /\ HasNul(Call.response.lines[2])
    /\ \A k \in 3 .. MaxRows + 1 : ~HasNul(Call.response.lines[k])
    /\ Len(fx_tick) = MaxRows
    /\ fx_tick[1].dt = datetime(TickDay, 1)

\* The last call of a method of DB that SpecDB has made.
DbCall == returns[1]

DbCalled(method) == returns # <<>> /\ DbCall.method = method

\* The database is as it was before the last call.
DbUnchanged == db = DbCall.before.db /\ fx_tick = DbCall.before.fx_tick

\* C18: create_database(overwrite=False) on an existing file returns False
\* and leaves the file and its contents as they were; in every other case
\* (no file, or overwrite=True), when the system refuses nothing, it returns
\* True and leaves a file with every table of the schema and none of the
\* instruments and ticks there were before.
C18_CreateDatabase ==
    DbCalled("create_database") =>
        IF ~DbCall.arg /\ DbCall.before.db.file
        THEN /\ DbCall.kind = "return"
             /\ DbCall.value = FALSE
             /\ DbUnchanged
        ELSE DbCall.fault = "" =>
                /\ DbCall.kind = "return"
                /\ DbCall.value = TRUE
                /\ db.file
                /\ db.tables = Tables
                /\ db.instruments = <<>>
                /\ fx_tick = <<>>

\* create_database(overwrite=True) has replaced a database that held
\* instruments and ticks.
C18_Witness ==
    /\ DbCalled("create_database")
    /\ DbCall.arg
    /\ DbCall.value
    /\ DbCall.before.db.instruments # <<>>
    /\ DbCall.before.fx_tick # <<>>
    /\ db.tables = Tables
    /\ fx_tick = <<>>

\* C19: delete_database and drop_tables called with confirm=False return
\* False and leave the file and its tables as they were;
\* delete_database(confirm=True) returns True, file or no file (so also
\* right after a delete), and no file is left; drop_tables(confirm=True) on
\* a created database returns True (each when the system refuses nothing).
C19_ActOnlyWhenConfirmed ==
    /\ (DbCalled("delete_database") \/ DbCalled("drop_tables")) =>
          IF ~DbCall.arg
          THEN /\ DbCall.kind = "return"
               /\ DbCall.value = FALSE
               /\ DbUnchanged
          ELSE DbCall.kind = "return" => DbCall.value = TRUE
    /\ (DbCalled("delete_database") /\ DbCall.arg
           /\ (DbCall.fault # "unlink" \/ ~DbCall.before.db.file)) =>
          /\ DbCall.kind = "return"
          /\ DbCall.value = TRUE
          /\ ~db.file
    /\ (DbCalled("drop_tables") /\ DbCall.arg /\ DbCall.fault # "sql"
           /\ DbCall.before.db.tables = Tables) =>
          /\ DbCall.kind = "return"
          /\ DbCall.value = TRUE

\* delete_database(confirm=True) has removed a database that held ticks.
C19_Witness ==
    /\ DbCalled("delete_database")
    /\ DbCall.arg
    /\ DbCall.value
    /\ DbCall.before.db.file
    /\ DbCall.before.fx_tick # <<>>
    /\ ~db.file

\* The text is one the script tests and strptime refuses.
InvalidDate(x) == Truthy(x) /\ ~strptime_ymd(x).ok

\* C20: with an invalid start or end date on the command line (and no
\* new database asked for) downloader is never called, nothing reads or
\* writes the store and nothing is fetched, and the process ends with a
\* non-zero exit status and a diagnostic message.
C20_InvalidDateExitsNonZeroBeforeCore ==
    (~argv.newdb /\ (InvalidDate(argv.start_date) \/ InvalidDate(argv.end_date))) =>
        /\ pc \in {"newdb", "start_date", "end_date", "exited"}
        /\ returns = <<>>
        /\ db = [FreshDb EXCEPT !.instruments = Catalog]
        /\ fetched = <<>>
        /\ process.ended =>
              /\ process.critical # <<>>
              /\ process.status # 0

\* The workers that are running a window.
Busy == {w \in Workers : worker[w] # 0}

\* How many times the window was fetched.
TimesFetched(label) ==
    Cardinality({k \in 1 .. Len(fetched) : fetched[k] = label})

\* C21: in a parallel call at most num_processes windows are being run at
\* a time, no window is held by two workers or by a worker and the queue,
\* and each submitted window is run at most once, by the one worker that
\* took it, which fetches, parses and writes it in one piece: a window is
\* fetched once when its task is over and not before, and a record of the
\* run exists exactly then.
C21_AtMostNumProcessesEachWindowOnce ==
    (pc = "dtd" /\ frame.multiprocess) =>
        LET tasks == 1 .. Len(frame.results)
            running == {k \in tasks : frame.results[k].state = "running"}
            over == {k \in tasks : frame.results[k].state \in {"ready", "lost"}}
        IN  /\ Cardinality(running) <= num_processes
            /\ running = {worker[w] : w \in Busy}
            /\ \A w1, w2 \in Busy : worker[w1] = worker[w2] => w1 = w2
            /\ \A j, k \in 1 .. Len(queue) : queue[j] = queue[k] => j = k
            /\ \A k \in 1 .. Len(queue) :
                  /\ queue[k] \in tasks
                  /\ frame.results[queue[k]].state = "queued"
            /\ \A k \in tasks :
                  frame.results[k].state = "queued" =>
                      \E j \in 1 .. Len(queue) : queue[j] = k
            /\ \A k \in tasks :
                  TimesFetched(UrlLabel(frame.results[k].url)) =
                      (IF k \in over THEN 1 ELSE 0)
            /\ Len(frame.ran) = Cardinality(over)

\* Every worker is running a window and one more window waits in the
\* queue.
C21_Witness ==
    /\ pc = "dtd"
    /\ frame.multiprocess
    /\ Cardinality(Busy) = num_processes
    /\ queue # <<>>
    /\ frame.results[Head(queue)].state = "queued"

\* ------------------------------------------------------------------------
\* C22: the pause of 1 to 3 seconds follows each window of a sequential
\* call, and a parallel call pauses nowhere: the dispatcher has not slept
\* between one submission to the pool and the next.
C22_PacingInSequentialModeOnly ==
    IF frame.multiprocess
    THEN frame.slept = <<>>
    ELSE /\ Len(frame.slept) = frame.i
         /\ \A k \in 1 .. Len(frame.slept) : frame.slept[k] \in 1 .. 3

\* The text is one the script tests and strptime accepts.
ValidDate(x) == Truthy(x) /\ strptime_ymd(x).ok

\* C23: with valid yyyy-mm-dd dates on the command line (each date valid or
\* not given, one of them given) the call of downloader raises no
\* TypeError and goes on to its instruments, and the range starts on the
\* date the start text denotes.
C23_ValidDatesReachDownloader ==
    ( /\ pc \in {"loop", "raised"}
      /\ ValidDate(argv.start_date) \/ ValidDate(argv.end_date)
      /\ argv.start_date = None \/ ValidDate(argv.start_date)
      /\ argv.end_date = None \/ ValidDate(argv.end_date) ) =>
        /\ pc = "loop"
        /\ ValidDate(argv.start_date) =>
              start_date = strptime_ymd(argv.start_date).date

\* C24: once create_database has returned True, and whatever
\* populate_database and get_status calls followed, the version table holds
\* the one row with id 1, and a get_status that nothing was refused to
\* returns that row as a dictionary.
C24_VersionRowDurable ==
    (returns # <<>> /\ DbCall.created) =>
        /\ db.version = <<1>>
        /\ (DbCall.method = "get_status" /\ DbCall.fault # "sql") =>
              /\ DbCall.kind = "return"
              /\ DbCall.value = VersionDict(1)

====
